---- MODULE Spec2Model ----
(***************************************************************************)
(* Model of the MT Premiado order-extraction service: the HTTP routes of   *)
(* src/api/routes/pedidos_routes.py, the controller of                     *)
(* src/api/controllers/pedidos_controller.py, the two listing scrapers,    *)
(* the HTTP login with its retry decorator and the state file.             *)
(*                                                                         *)
(* One action is one request served from start to end (requests do not     *)
(* overlap here).  The target site and the outcome of every network or     *)
(* browser operation are the environment: the site listing is a variable,  *)
(* the failures of one request are drawn with \E in its action.            *)
(*                                                                         *)
(* req is the record of the last request served, kept for the properties.  *)
(* The program does not read it; the one use of it is by a caller who      *)
(* resumes a full extraction from the cursor of the response he holds.     *)
(* Forget drops the record, and a request that is no such resume starts    *)
(* from a dropped record, so that equal program states are explored once.  *)
(*                                                                         *)
(* probe is the record of the last direct call of one method of the        *)
(* program (a scraper method, the response builder, the state manager),    *)
(* with the arguments it was given and what it returned or raised; such    *)
(* calls are the actions of SpecUnits.                                     *)
(*                                                                         *)
(* tasks holds two incremental requests served by the event loop in        *)
(* browser mode, each advancing from one await to the next; their steps    *)
(* are the actions of SpecTasks.                                           *)
(*                                                                         *)
(* cacheFile is data/pages_cache.json of PageCache, debug_session_data the *)
(* module global of debug_helper.py; their operations are the actions of   *)
(* SpecCache and SpecDebug.                                                *)
(***************************************************************************)
EXTENDS Integers, Sequences, FiniteSets, TLC

VARIABLES site, stateFile, USE_PLAYWRIGHT, req, probe, tasks,
          cacheFile, debug_session_data

vars == <<site, stateFile, USE_PLAYWRIGHT, req, probe, tasks,
          cacheFile, debug_session_data>>

---------------------------------------------------------------------------
(* Bounds of the model.                                                    *)

\* largest numeric order id the site hands out
MaxId == 3
\* largest number of rows the site listing holds
MaxRows == 2
\* largest limit a caller passes
MaxLimit == 2

\* rows the site shows per listing page
PageSize == 1

---------------------------------------------------------------------------
(* Optional values and order ids.  Python's None, an int and a str that is *)
(* not all digits are kept apart by a tag, as isinstance() keeps them      *)
(* apart in the code.                                                      *)

None == [t |-> "none", v |-> 0]
Some(n) == [t |-> "int", v |-> n]
\* an id the scraper could not parse: int(value) failed, the raw text stays
StrId == [t |-> "str", v |-> 0]
\* a str of digits only: str.isdigit() holds and int() gives n
DigitsId(n) == [t |-> "digits", v |-> n]

IsInt(x) == x.t = "int"

\* variant of NormId that leaves every str as it is
NormId_NoConversion(x) == x

\* "int(x) if isinstance(x, str) and x.isdigit() else x"
NormId(x) == IF x.t = "digits" THEN Some(x.v) ELSE x

Min2(a, b) == IF a <= b THEN a ELSE b
Max2(a, b) == IF a >= b THEN a ELSE b

RECURSIVE SeqMax(_)
\* python: max(s) for a non-empty list of ints
SeqMax(s) ==
    IF Len(s) = 1 THEN s[1] ELSE Max2(s[1], SeqMax(Tail(s)))

RECURSIVE SeqMin(_)
\* python: min(s) for a non-empty list of ints
SeqMin(s) ==
    IF Len(s) = 1 THEN s[1] ELSE Min2(s[1], SeqMin(Tail(s)))

\* python: seq[:n] for n >= 0
Take(s, n) == SubSeq(s, 1, Min2(n, Len(s)))

---------------------------------------------------------------------------
(* The target site: the rows of the order listing, in the order the site   *)
(* lists them, PageSize rows a page.  A row carries the id its markup      *)
(* yields and whether it has a "detalhes" link.                            *)

IdUniverse == {Some(n) : n \in 1..MaxId} \cup {StrId}

\* the rows of the modelled site: a row with a numeric id links to its
\* detail page, a row whose id text is not a number does not
Row(id) == [id |-> id, detalhes_url |-> IsInt(id)]

Listings ==
    { s \in UNION { [1..n -> IdUniverse] : n \in 0..MaxRows } :
        \A i, j \in 1..Len(s) : i # j => s[i] # s[j] }

NumPages(rows) == (Len(rows) + PageSize - 1) \div PageSize

\* rows of page p (1-indexed); a page past the end has no rows
PageRows(rows, p) ==
    SubSeq(rows, (p - 1) * PageSize + 1, Min2(p * PageSize, Len(rows)))

---------------------------------------------------------------------------
(* Listing scrapers.  A collected order (a dict in the code) is a record   *)
(* of its id, its detail link, its summary fields (campos: "text" when     *)
(* they hold text, "missing" when the keys are not there, "bad" when one   *)
(* holds a value that is no text, "empty" when they are "") and its ten    *)
(* detail fields (det: "absent" when the keys are not there, "filled",     *)
(* "empty" when they are "").                                              *)

\* python truthiness of an extracted id: None, 0 and "" are falsy
IdTruthy(id) == id.t = "str" \/ (id.t = "int" /\ id.v # 0)

\* _extract_pedido_from_row: the dict of the row, or no dict when no id
\* was found (returned here as the empty sequence, else a one-element one)
ExtractPedidoFromRow(row) ==
    IF IdTruthy(row.id)
    THEN << [id |-> row.id, detalhes_url |-> row.detalhes_url,
             campos |-> "text", det |-> "absent"] >>
    ELSE <<>>

RECURSIVE ExtractRows(_)
\* the row loop of one page: the dicts of its rows, in order
ExtractRows(rows) ==
    IF rows = <<>> THEN <<>>
    ELSE ExtractPedidoFromRow(Head(rows)) \o ExtractRows(Tail(rows))

\* variant of IdAbove that also accepts the watermark itself
IdAbove_Inclusive(id, w) == IsInt(NormId(id)) /\ NormId(id).v >= w.v

\* the id normalised as the filters do (int(id) for an all-digit str, else
\* the id itself), then isinstance(.., int) and id > last_order_id
IdAbove(id, w) == IsInt(NormId(id)) /\ NormId(id).v > w.v

\* the early-exit test of the browser scraper: a numeric id <= last_order_id
IdAtOrBelow(id, w) == IsInt(NormId(id)) /\ NormId(id).v <= w.v

\* the test of the final filter of extract_all_pedidos (both scrapers)
FilterKeeps(pedido, last_order_id) ==
    IF last_order_id # None
    THEN IF pedido.id # None THEN IdAbove(pedido.id, last_order_id) ELSE TRUE
    ELSE TRUE

RECURSIVE FilterSeq(_, _)
\* the final filter loop: the orders FilterKeeps keeps, in order
FilterSeq(all, last_order_id) ==
    IF all = <<>> THEN <<>>
    ELSE (IF FilterKeeps(Head(all), last_order_id) THEN <<Head(all)>> ELSE <<>>)
         \o FilterSeq(Tail(all), last_order_id)

\* "if limit is not None: final_pedidos = final_pedidos[:limit]"
Truncate(final, limit) ==
    IF limit # None THEN Take(final, limit.v) ELSE final

\* final filter, then truncation to limit
FinalFilter(all, last_order_id, limit) ==
    Truncate(FilterSeq(all, last_order_id), limit)

\* ListagemScraper._has_more_pages: an enabled next-page control
HttpHasMorePages(rows, page) == page < NumPages(rows)

\* stop_after_attempt(3) of ListagemScraper._fetch_page
FetchAttempts == 3

\* ListagemScraper._fetch_page under @retry(stop_after_attempt(3),
\* retry_if_exception_type(NetworkError)) without reraise, when the GET
\* fails `fails` times in a row: every failed attempt raises NetworkError
\* and is retried, and when the attempts are used up the decorator raises
\* its own RetryError, not the NetworkError of the last attempt
FetchPageRetrying(fails) ==
    IF fails < FetchAttempts
    THEN [exc |-> "", attempts |-> fails + 1]
    ELSE [exc |-> "RetryError", attempts |-> FetchAttempts]

\* _fetch_page(page) during a run in which the GET of page failPage fails
\* on every attempt
HttpFetchPage(failPage, page) ==
    IF page = failPage THEN FetchPageRetrying(FetchAttempts).exc ELSE "ok"

RECURSIVE HttpCollect(_, _, _, _, _)
RECURSIVE HttpAfterPage(_, _, _, _, _)

\* the while loop of ListagemScraper.extract_all_pedidos from the fetch of
\* `page` on: all_pedidos when the loop is left.  "except NetworkError:
\* raise" does not match a RetryError, which falls to "except Exception:
\* break"; a page without rows ends the loop
HttpCollect(rows, limit, failPage, page, acc) ==
    CASE HttpFetchPage(failPage, page) = "NetworkError" ->
           [exc |-> "NetworkError", all |-> acc]
      [] HttpFetchPage(failPage, page) = "RetryError" ->
           [exc |-> "", all |-> acc]
      [] OTHER ->
           IF PageRows(rows, page) = <<>>
           THEN [exc |-> "", all |-> acc]
           ELSE HttpAfterPage(rows, limit, failPage, page,
                              acc \o ExtractRows(PageRows(rows, page)))

\* the rest of a loop round, once the rows of `page` are in all_pedidos:
\* stop on the limit, stop without a next page, else the next page
HttpAfterPage(rows, limit, failPage, page, all) ==
    IF limit # None /\ Len(all) >= limit.v
    THEN [exc |-> "", all |-> all]
    ELSE IF ~HttpHasMorePages(rows, page)
    THEN [exc |-> "", all |-> all]
    ELSE HttpCollect(rows, limit, failPage, page + 1, all)

\* what extract_all_pedidos does with the outcome c of its loop
ListingResult(c, last_order_id, limit) ==
    IF c.exc # "" THEN [exc |-> c.exc, pedidos |-> <<>>]
    ELSE [exc |-> "", pedidos |-> FinalFilter(c.all, last_order_id, limit)]

\* ListagemScraper.extract_all_pedidos(last_order_id, limit)
HttpExtractAllPedidos(rows, last_order_id, limit, failPage) ==
    ListingResult(HttpCollect(rows, limit, failPage, 1, <<>>),
                  last_order_id, limit)

\* ListagemScraperPlaywright._fetch_page: no retry decorator; a failed
\* navigation is raised as NetworkError
PwFetchPage(failPage, page) ==
    IF page = failPage THEN "NetworkError" ELSE "ok"

\* ListagemScraperPlaywright._has_more_pages hands the HTML parser the
\* selector 'a[href*="page="]:has-text("Proxima"), a[rel="next"]'.
\* :has-text is a selector of the browser engine, not of the HTML parser's
\* CSS engine, which rejects the whole selector with an error
PwHasMorePages(rows, page) == "SelectorSyntaxError"

RECURSIVE PwScanRows(_, _)
\* the row loop of one page: the orders appended before the first row whose
\* id is <= last_order_id (the early exit)
PwScanRows(pedidos, last_order_id) ==
    IF pedidos = <<>> THEN <<>>
    ELSE IF last_order_id # None /\ Head(pedidos).id # None
            /\ IdAtOrBelow(Head(pedidos).id, last_order_id)
    THEN <<>>
    ELSE <<Head(pedidos)>> \o PwScanRows(Tail(pedidos), last_order_id)

\* found_last_order of that loop: some row of the page has an id that is
\* <= last_order_id
PwFoundLastOrder(pedidos, last_order_id) ==
    /\ last_order_id # None
    /\ \E i \in 1..Len(pedidos) :
         pedidos[i].id # None /\ IdAtOrBelow(pedidos[i].id, last_order_id)

RECURSIVE PwCollect(_, _, _, _, _, _)
RECURSIVE PwAfterPage(_, _, _, _, _, _, _)

\* the while loop of ListagemScraperPlaywright.extract_all_pedidos from the
\* fetch of `page` on
PwCollect(rows, last_order_id, limit, failPage, page, acc) ==
    IF PwFetchPage(failPage, page) = "NetworkError"
    THEN [exc |-> "NetworkError", all |-> acc]
    ELSE IF PageRows(rows, page) = <<>>
    THEN [exc |-> "", all |-> acc]
    ELSE PwAfterPage(rows, last_order_id, limit, failPage, page,
             acc \o PwScanRows(ExtractRows(PageRows(rows, page)), last_order_id),
             PwFoundLastOrder(ExtractRows(PageRows(rows, page)), last_order_id))

\* the rest of a loop round: stop on the early exit, stop on the limit,
\* stop when _has_more_pages raises ("except Exception: break") or says no,
\* else the next page
PwAfterPage(rows, last_order_id, limit, failPage, page, all, found_last_order) ==
    IF found_last_order
    THEN [exc |-> "", all |-> all]
    ELSE IF limit # None /\ Len(all) >= limit.v
    THEN [exc |-> "", all |-> all]
    ELSE IF PwHasMorePages(rows, page) # "true"
    THEN [exc |-> "", all |-> all]
    ELSE PwCollect(rows, last_order_id, limit, failPage, page + 1, all)

\* ListagemScraperPlaywright.extract_all_pedidos(last_order_id, limit)
PwExtractAllPedidos(rows, last_order_id, limit, failPage) ==
    ListingResult(PwCollect(rows, last_order_id, limit, failPage, 1, <<>>),
                  last_order_id, limit)

---------------------------------------------------------------------------
(* Sessions.                                                               *)

\* stop_after_attempt(3) of the retry decorators
MaxAttempts == 3

\* AuthenticatedSession._get_csrf_token on a login page that holds the
\* hidden _token field ("field"), the csrf-token meta tag ("meta"), both or
\* neither: the first pattern is tried first.  With neither, the
\* AuthenticationError raised inside the try is caught by its own `except
\* Exception` and raised again as NetworkError, which @retry (no reraise)
\* retries until it raises RetryError
HttpGetCsrfToken(login_page) ==
    CASE login_page \in {"field", "both"} -> [exc |-> "", token |-> "field"]
      [] login_page = "meta" -> [exc |-> "", token |-> "meta"]
      [] OTHER -> [exc |-> "RetryError", token |-> ""]

\* PlaywrightSession._get_csrf_token: the same two patterns; with neither,
\* the AuthenticationError is caught by `except Exception` and raised
\* again as NetworkError (there is no retry)
PwGetCsrfToken(login_page) ==
    CASE login_page \in {"field", "both"} -> [exc |-> "", token |-> "field"]
      [] login_page = "meta" -> [exc |-> "", token |-> "meta"]
      [] OTHER -> [exc |-> "NetworkError", token |-> ""]

\* AuthenticatedSession.login under @retry(stop_after_attempt(3),
\* retry_if_exception_type((NetworkError, AuthenticationError))) without
\* reraise.  Each attempt that fails raises AuthenticationError (a missing
\* CSRF token, a failed POST, a login page after the POST); loginFails is
\* the number of attempts the site fails in a row.  When the attempts are
\* used up the decorator raises RetryError, not the last error
HttpLogin(loginFails) ==
    IF loginFails < MaxAttempts
    THEN [exc |-> "", attempts |-> loginFails + 1]
    ELSE [exc |-> "RetryError", attempts |-> MaxAttempts]

\* PlaywrightSession.__aenter__ and PlaywrightSession.login: both browser
\* launches failing raises RuntimeError, a failed login AuthenticationError;
\* there is no retry
PwOpenAndLogin(pwFault) ==
    IF pwFault = "launch" THEN "RuntimeError"
    ELSE IF pwFault = "login" THEN "AuthenticationError"
    ELSE ""

\* the requests.Session objects of one "with get_authenticated_session()":
\* login() builds a new Session() in self.session on every attempt, and
\* the finally clause calls auth_session.close(), which closes the one
\* self.session then holds
HttpSessionScope(loginFails) ==
    [exc |-> HttpLogin(loginFails).exc,
     created |-> HttpLogin(loginFails).attempts,
     closed |-> 1]

\* PlaywrightSession.__aexit__ when the close named closeFault raises
\* ("none": none does): the closes it calls, in order.  The four awaits
\* follow each other without a try, so the one that raises is the last
AExit(closeFault) ==
    IF closeFault = "none" THEN <<"page", "context", "browser", "engine">>
    ELSE SubSeq(<<"page", "context", "browser", "engine">>, 1,
                CHOOSE i \in 1..4 :
                   <<"page", "context", "browser", "engine">>[i] = closeFault)

\* one "async with PlaywrightSession() as s: await s.login(); ..." : what
\* __aenter__ started and what was closed.  __aenter__ starts the engine
\* first; when both launches fail it raises, and __aexit__ is not called
\* for an __aenter__ that raised
PwSessionScope(pwFault, closeFault) ==
    IF pwFault = "launch"
    THEN [exc |-> PwOpenAndLogin(pwFault), started |-> <<"engine">>,
          attempted |-> <<>>, failed |-> "none"]
    ELSE [exc |-> PwOpenAndLogin(pwFault),
          started |-> <<"engine", "browser", "context", "page">>,
          attempted |-> AExit(closeFault), failed |-> closeFault]

---------------------------------------------------------------------------
(* Detail stage and response assembly.                                     *)

\* variant of ExtractDetalhes that lets the error of the GET out
ExtractDetalhes_Raising(fault) ==
    CASE fault = "none" -> [exc |-> "", det |-> "filled"]
      [] fault = "get" -> [exc |-> "NetworkError", det |-> "absent"]
      [] OTHER -> [exc |-> "", det |-> "empty"]

\* DetalhesScraper.extract_detalhes when the GET fails ("get"), the page
\* answers with an error status ("status"), a field extractor raises
\* ("parse") or nothing fails ("none"): whatever the try raises, `except
\* Exception` returns the ten fields as ""
ExtractDetalhes(fault) ==
    CASE fault = "none" -> [exc |-> "", det |-> "filled"]
      [] OTHER -> [exc |-> "", det |-> "empty"]

DetailAttempts == 3

\* the GETs one call of DetalhesScraper.extract_detalhes issues: each run of
\* the body issues one session.get, and @retry(stop_after_attempt(3),
\* retry_if_exception_type(NetworkError)) runs the body again while it
\* raises NetworkError
ExtractDetalhesGets(fault) ==
    IF ExtractDetalhes(fault).exc = "NetworkError" THEN DetailAttempts ELSE 1

\* PlaywrightDetalhesScraper.extract_detalhes when page.goto times out
\* ("timeout"), the page is gone ("closed"), a field extractor raises
\* ("parse") or nothing fails: `except PlaywrightTimeoutError` and `except
\* Exception` both return _empty_detalhes()
PwExtractDetalhes(fault) ==
    CASE fault = "none" -> [exc |-> "", det |-> "filled"]
      [] fault = "timeout" -> [exc |-> "", det |-> "empty"]
      [] OTHER -> [exc |-> "", det |-> "empty"]

\* one turn of the detail loop of the controller: {**pedido, **detalhes}
\* for an order with a detail link, the order as listed when it has none or
\* when extract_detalhes raised
MergeDetalhes(pedido, detalhes) ==
    IF pedido.detalhes_url
    THEN IF detalhes.exc # "" THEN pedido
         ELSE [pedido EXCEPT !.det = detalhes.det]
    ELSE pedido

\* variant of DetailLoop that leaves out the orders whose details raised
DetailLoop_SkipRaised(pedidos, detalhes) ==
    [i \in 1..Len(SelectSeq([k \in 1..Len(pedidos) |-> k],
                            LAMBDA k : detalhes[k].exc = "")) |->
        MergeDetalhes(pedidos[SelectSeq([k \in 1..Len(pedidos) |-> k],
                                        LAMBDA k : detalhes[k].exc = "")[i]],
                      [exc |-> "", det |-> "filled"])]

\* the detail loop of the controller, detalhes[i] being what
\* extract_detalhes does for the i-th order
DetailLoop(pedidos, detalhes) ==
    [i \in 1..Len(pedidos) |-> MergeDetalhes(pedidos[i], detalhes[i])]

\* the detail loop when the detail pages all load (detOk) or all fail
DetailStage(pedidos, detOk) ==
    DetailLoop(pedidos, [i \in 1..Len(pedidos) |->
                           ExtractDetalhes(IF detOk THEN "none" ELSE "get")])

\* PedidoDetalhesSchema(): every field at its default (id None, every
\* other field "")
DefaultPedido ==
    [id |-> None, detalhes_url |-> FALSE, campos |-> "empty", det |-> "empty"]

\* pedido_dict of _build_response: pedido.get(key, "") puts "" where the
\* dict has no such key
PedidoDict(pedido) ==
    [id |-> pedido.id, detalhes_url |-> pedido.detalhes_url,
     campos |-> IF pedido.campos = "missing" THEN "empty" ELSE pedido.campos,
     det |-> IF pedido.det = "absent" THEN "empty" ELSE pedido.det]

\* whether PedidoDetalhesSchema(**d) validates: id is Optional[int] (None,
\* an int, a str of digits), every other field Optional[str]
Validates(d) == d.id.t # "str" /\ d.campos # "bad"

\* one turn of the loop of _build_response: the schema record of the
\* order (its id as an int), or the all-default record when the
\* construction raises
ToSchema(pedido) ==
    IF Validates(PedidoDict(pedido))
    THEN [PedidoDict(pedido) EXCEPT !.id = NormId(pedido.id)]
    ELSE DefaultPedido

\* variant of BuildResponse that leaves out the orders that do not validate
BuildResponse_SkipInvalid(pedidos_completos) ==
    [i \in 1..Len(SelectSeq(pedidos_completos,
                            LAMBDA p : Validates(PedidoDict(p)))) |->
        ToSchema(SelectSeq(pedidos_completos,
                           LAMBDA p : Validates(PedidoDict(p)))[i])]

\* PedidosController._build_response: the list of schema records (total is
\* its length)
BuildResponse(pedidos_completos) ==
    [i \in 1..Len(pedidos_completos) |-> ToSchema(pedidos_completos[i])]

\* PedidosResponseSchema(total=len(pedidos_schema), pedidos=pedidos_schema)
ResponseSchema(pedidos_schema) ==
    [total |-> Len(pedidos_schema), pedidos |-> pedidos_schema]

---------------------------------------------------------------------------
(* Controller workflows.  A workflow result records the exception that     *)
(* left it ("" when it returned), the orders it returned, and how often    *)
(* each backend ran and with which arguments.                              *)

NoArgs == [last_id |-> None, limit |-> None]

\* a run of the requests workflow called with (last_id, limit) that logged
\* in with `attempts` attempts and ended with exception exc or, for "",
\* returned pedidos
HttpRun(last_id, limit, attempts, exc, pedidos) ==
    [exc |-> exc, pedidos |-> pedidos, pw_runs |-> 0, pw_exc |-> "",
     http_runs |-> 1, http_exc |-> exc,
     http_args |-> [last_id |-> last_id, limit |-> limit],
     login_attempts |-> attempts, auth_failed |-> FALSE]

\* the requests workflow after the login: listing, then details
HttpAfterLogin(last_id, limit, attempts, listing, detOk) ==
    IF listing.exc # ""
    THEN HttpRun(last_id, limit, attempts, listing.exc, <<>>)
    ELSE HttpRun(last_id, limit, attempts, "",
                 DetailStage(listing.pedidos, detOk))

\* the requests workflow given the outcome of the login
HttpWithLogin(rows, last_id, limit, env, login) ==
    IF login.exc # ""
    THEN [HttpRun(last_id, limit, login.attempts, login.exc, <<>>)
            EXCEPT !.auth_failed = TRUE]
    ELSE HttpAfterLogin(last_id, limit, login.attempts,
             HttpExtractAllPedidos(rows, last_id, limit, env.failPage),
             env.detOk)

\* _extract_with_requests / _extract_incremental_with_requests: login,
\* listing, details; "except Exception: raise" passes every error on
ExtractWithRequests(rows, last_id, limit, env) ==
    HttpWithLogin(rows, last_id, limit, env, HttpLogin(env.loginFails))

\* the browser workflow after session and login: listing, then details
PwAfterLogin(listing, detOk) ==
    IF listing.exc # "" THEN [exc |-> listing.exc, pedidos |-> <<>>]
    ELSE [exc |-> "", pedidos |-> DetailStage(listing.pedidos, detOk)]

\* the browser workflow given the outcome of opening the session
PwWithSession(rows, last_id, limit, env, open) ==
    IF open # "" THEN [exc |-> open, pedidos |-> <<>>]
    ELSE PwAfterLogin(
             PwExtractAllPedidos(rows, last_id, limit, env.pwFailPage),
             env.detOk)

\* the try body of _extract_with_playwright /
\* _extract_incremental_with_playwright
PlaywrightBody(rows, last_id, limit, env) ==
    PwWithSession(rows, last_id, limit, env, PwOpenAndLogin(env.pwFault))

\* the except clause of the browser workflows: the body's result when it
\* returned, else the outcome of the one fallback call
WithFallback(body, fallback) ==
    IF body.exc = ""
    THEN [exc |-> "", pedidos |-> body.pedidos, pw_runs |-> 1, pw_exc |-> "",
          http_runs |-> 0, http_exc |-> "", http_args |-> NoArgs,
          login_attempts |-> 0, auth_failed |-> FALSE]
    ELSE [fallback EXCEPT !.pw_runs = 1, !.pw_exc = body.exc]

\* variant of ExtractWithPlaywright whose fallback drops the limit
ExtractWithPlaywright_FallbackUnlimited(rows, last_id, limit, env) ==
    WithFallback(PlaywrightBody(rows, last_id, limit, env),
                 ExtractWithRequests(rows, last_id, None, env))

\* _extract_with_playwright / _extract_incremental_with_playwright: on any
\* error of the browser body, one call of the requests workflow with the
\* same arguments, whose result or error is the outcome
ExtractWithPlaywright(rows, last_id, limit, env) ==
    WithFallback(PlaywrightBody(rows, last_id, limit, env),
                 ExtractWithRequests(rows, last_id, limit, env))

\* the backend switch on settings.USE_PLAYWRIGHT
Extract(usePw, rows, last_id, limit, env) ==
    IF usePw THEN ExtractWithPlaywright(rows, last_id, limit, env)
    ELSE ExtractWithRequests(rows, last_id, limit, env)

RECURSIVE NumericIds(_)
\* the numeric ids of a list of orders, as the aggregations coerce them:
\* an int counts as it is, a str of digits as its value, anything else
\* (None, another str) is left out
NumericIds(pedidos) ==
    IF pedidos = <<>> THEN <<>>
    ELSE (IF IsInt(NormId(Head(pedidos).id))
          THEN <<NormId(Head(pedidos).id).v>> ELSE <<>>)
         \o NumericIds(Tail(pedidos))

\* max(int_ids) if int_ids else None
MaxOrNone(int_ids) ==
    IF int_ids = <<>> THEN None ELSE Some(SeqMax(int_ids))

\* min(int_ids) if int_ids else None
MinOrNone(int_ids) ==
    IF int_ids = <<>> THEN None ELSE Some(SeqMin(int_ids))

\* max_id of the save blocks: None when no order has a numeric id
MaxIdOf(pedidos) == MaxOrNone(NumericIds(pedidos))

\* last_id_processed of the pagination block: the smallest numeric id
LastIdProcessed(pedidos) == MinOrNone(NumericIds(pedidos))

\* "if max_id:" - None and 0 do not save
MaxIdTruthy(max_id) == max_id # None /\ max_id.v # 0

---------------------------------------------------------------------------
(* The state file data/last_order_state.json.  A file is missing, cannot   *)
(* be opened, holds text that is no JSON, holds JSON that is no object, or *)
(* holds an object; of an object only the value under "last_order_id"      *)
(* matters: None (null or no such key), a number, a string.                *)

MissingFile == [kind |-> "missing", last_order_id |-> None]
JsonObject(v) == [kind |-> "object", last_order_id |-> v]

\* python: int(x) for a JSON value that is not null: the number itself, the
\* value of a string of digits, ValueError for any other string
PyInt(x) ==
    IF x.t = "int" THEN [exc |-> "", val |-> x]
    ELSE IF x.t = "digits" THEN [exc |-> "", val |-> Some(x.v)]
    ELSE [exc |-> "ValueError", val |-> None]

\* StateManager.get_last_order_id: None without a file; None when open,
\* json.load, data.get or int() raises (both except clauses return None);
\* else int(last_id), or None for a null
GetLastOrderId(file) ==
    IF file.kind = "missing" THEN None
    ELSE IF file.kind # "object" THEN None
    ELSE IF file.last_order_id = None THEN None
    ELSE PyInt(file.last_order_id).val

\* variant of SaveLastOrderId that does not overwrite an existing file
SaveLastOrderId_KeepsExisting(file, order_id, fault) ==
    IF file.kind = "missing" /\ fault = "none"
    THEN [file |-> JsonObject(order_id), ret |-> TRUE, exc |-> ""]
    ELSE [file |-> file, ret |-> fault = "none",
          exc |-> IF fault = "mkdir" THEN "OSError" ELSE ""]

\* StateManager.save_last_order_id(order_id) on `file`: the file it leaves,
\* what it returns and what it raises.  mkdir of the directory is outside
\* the try and its error is raised; inside the try a failed open leaves the
\* file as it was, a failed write leaves the truncated file, and both
\* return False; else json.dump writes the object with order_id
SaveLastOrderId(file, order_id, fault) ==
    CASE fault = "mkdir" -> [file |-> file, ret |-> FALSE, exc |-> "OSError"]
      [] fault = "open" -> [file |-> file, ret |-> FALSE, exc |-> ""]
      [] fault = "dump" ->
           [file |-> [kind |-> "invalid_json", last_order_id |-> None],
            ret |-> FALSE, exc |-> ""]
      [] OTHER -> [file |-> JsonObject(order_id), ret |-> TRUE, exc |-> ""]

---------------------------------------------------------------------------
(* The controller's public operations.                                     *)

\* settings.EXPORT_JSON (default)
EXPORT_JSON == TRUE

\* a response without pagination metadata
NoPagination ==
    [present |-> FALSE, last_id_processed |-> None, has_more |-> FALSE,
     limit |-> None, last_id_requested |-> None]

\* variant of HasMore that flags a short page instead of a full one
HasMore_ShortPage(pedidos, limit) == Len(pedidos) < limit.v

\* has_more of the pagination block
HasMore(pedidos, limit) == Len(pedidos) = limit.v

\* PaginationMetadata(...) and response.pagination = pagination
Pagination(pedidos, last_id, limit) ==
    [present |-> TRUE, last_id_processed |-> LastIdProcessed(pedidos),
     has_more |-> HasMore(pedidos, limit),
     limit |-> limit, last_id_requested |-> last_id]

\* variant of FullSaves that saves whether or not a limit was given
FullSaves_AnyLimit(pedidos, limit) ==
    pedidos # <<>> /\ MaxIdTruthy(MaxIdOf(pedidos))

\* whether extract_all_pedidos_full saves the watermark
FullSaves(pedidos, limit) ==
    limit = None /\ pedidos # <<>> /\ MaxIdTruthy(MaxIdOf(pedidos))

\* what a controller operation leaves when its workflow raised: the state
\* file as it was and the error, nothing saved or exported
Raised(run, stored, w) ==
    [stored |-> stored,
     out |-> [run |-> [run EXCEPT !.pedidos = <<>>], exc |-> run.exc,
              pedidos |-> <<>>, pagination |-> NoPagination,
              w |-> w, saved |-> FALSE, exported |-> FALSE]]

\* what a controller operation leaves when it returns: the response, the
\* state file (save_last_order_id(max_id) when `saves`), the export
Returned(run, stored, w, pedidos, pagination, saves, max_id) ==
    [stored |-> IF saves THEN SaveLastOrderId(stored, max_id, "none").file
                ELSE stored,
     out |-> [run |-> [run EXCEPT !.pedidos = <<>>], exc |-> "",
              pedidos |-> pedidos, pagination |-> pagination,
              w |-> w, saved |-> saves, exported |-> EXPORT_JSON]]

\* extract_all_pedidos_full once the workflow returned `pedidos`: the
\* pagination block, the save block, the export
FullRespond(run, stored, last_id, limit, pedidos) ==
    Returned(run, stored, last_id, pedidos,
             IF limit # None THEN Pagination(pedidos, last_id, limit)
             ELSE NoPagination,
             FullSaves(pedidos, limit), MaxIdOf(pedidos))

\* extract_all_pedidos_full given the outcome of its workflow
FullAfterRun(run, stored, last_id, limit) ==
    IF run.exc # "" THEN Raised(run, stored, last_id)
    ELSE FullRespond(run, stored, last_id, limit, BuildResponse(run.pedidos))

\* PedidosController.extract_all_pedidos_full(last_id, limit): the outcome
\* and the state file it leaves
ExtractAllPedidosFull(usePw, rows, stored, last_id, limit, env) ==
    FullAfterRun(Extract(usePw, rows, last_id, limit, env),
                 stored, last_id, limit)

\* variant of IncrementalSaves that never saves
IncrementalSaves_Never(pedidos_completos) ==
    pedidos_completos # pedidos_completos

\* whether extract_incremental_pedidos saves the watermark
IncrementalSaves(pedidos_completos) ==
    pedidos_completos # <<>> /\ MaxIdTruthy(MaxIdOf(pedidos_completos))

\* extract_incremental_pedidos given the outcome of its workflow
IncrementalAfterRun(run, stored, w) ==
    IF run.exc # "" THEN Raised(run, stored, w)
    ELSE Returned(run, stored, w, BuildResponse(run.pedidos), NoPagination,
                  IncrementalSaves(run.pedidos), MaxIdOf(run.pedidos))

\* extract_incremental_pedidos from the watermark w it settled on
IncrementalFrom(usePw, rows, stored, w, env) ==
    IncrementalAfterRun(Extract(usePw, rows, w, None, env), stored, w)

\* PedidosController.extract_incremental_pedidos(last_order_id): the
\* watermark is the argument, or the stored id when there is none
ExtractIncrementalPedidos(usePw, rows, stored, last_order_id, env) ==
    IncrementalFrom(usePw, rows, stored,
                    IF last_order_id = None THEN GetLastOrderId(stored)
                    ELSE last_order_id,
                    env)

---------------------------------------------------------------------------
(* Routes.                                                                 *)

\* the parameters of extract_all_pedidos_full and the keywords
\* get_pedidos_full calls it with
FullParameters == {"last_id", "limit"}
FullCallKeywords == {"page", "limit"}

\* the two except clauses of the route handlers: AuthenticationError is
\* answered 401, every other exception (an HTTPException raised inside the
\* try included) 500
RouteStatus(exc) ==
    IF exc = "" THEN 200
    ELSE IF exc = "AuthenticationError" THEN 401
    ELSE 500

\* the parameter checks at the head of get_pedidos_full's try block
FullValidation(page, limit) ==
    IF page # None /\ page.v < 1 THEN "HTTPException400"
    ELSE IF limit # None /\ limit.v <= 0 THEN "HTTPException400"
    ELSE ""

NoRun ==
    [exc |-> "", pedidos |-> <<>>, pw_runs |-> 0, pw_exc |-> "",
     http_runs |-> 0, http_exc |-> "", http_args |-> NoArgs,
     login_attempts |-> 0, auth_failed |-> FALSE]

\* an outcome in which the controller's body did not run
NotRun(exc) ==
    [run |-> NoRun, exc |-> exc, pedidos |-> <<>>, pagination |-> NoPagination,
     w |-> None, saved |-> FALSE, exported |-> FALSE]

\* the outcome of a controller call that was made
Called(r) == [called |-> TRUE, stored |-> r.stored, out |-> r.out]

\* get_pedidos_full(page, limit): validation, then
\* controller.extract_all_pedidos_full(page=page, limit=limit); a keyword
\* the callee does not declare is a TypeError at the call
GetPedidosFullOutcome(usePw, rows, stored, page, limit, env) ==
    IF FullValidation(page, limit) # ""
    THEN [called |-> FALSE, stored |-> stored,
          out |-> NotRun(FullValidation(page, limit))]
    ELSE IF ~(FullCallKeywords \subseteq FullParameters)
    THEN [called |-> FALSE, stored |-> stored, out |-> NotRun("TypeError")]
    ELSE Called(ExtractAllPedidosFull(usePw, rows, stored, None, limit, env))

---------------------------------------------------------------------------
(* State machine.                                                          *)

Opt(S) == {None} \cup {Some(n) : n \in S}

MaxPage == (MaxRows + PageSize - 1) \div PageSize

\* what the network does during one run of the requests workflow: the
\* login fails on every attempt, or it succeeds and then either one listing
\* page cannot be fetched, or the detail pages do not load, or all is well
HttpEnvs ==
    [loginFails : {MaxAttempts}, failPage : {0}, detOk : {TRUE}]
    \cup [loginFails : {0}, failPage : 0..MaxPage, detOk : {TRUE}]
    \cup [loginFails : {0}, failPage : {0}, detOk : {FALSE}]

QuietHttp == [loginFails |-> 0, failPage |-> 0, detOk |-> TRUE]

WithPw(h, pwFault, pwFailPage) ==
    [loginFails |-> h.loginFails, failPage |-> h.failPage, detOk |-> h.detOk,
     pwFault |-> pwFault, pwFailPage |-> pwFailPage]

\* what the browser does during one run of the browser workflow: both
\* launches fail, the login fails, the first listing page does not load
PwFaults == {[pwFault |-> "launch", pwFailPage |-> 0],
             [pwFault |-> "login", pwFailPage |-> 0],
             [pwFault |-> "none", pwFailPage |-> 1]}

\* what the network and the browser do during one request; the requests
\* workflow only matters when it runs, that is alone or as the fallback of
\* a browser run that failed
Envs(usePw) ==
    IF ~usePw THEN { WithPw(h, "none", 0) : h \in HttpEnvs }
    ELSE { WithPw([QuietHttp EXCEPT !.detOk = d], "none", 0) : d \in BOOLEAN }
         \cup { WithPw(h, f.pwFault, f.pwFailPage) : h \in HttpEnvs, f \in PwFaults }

NoFault == WithPw(QuietHttp, "none", 0)

\* no direct call on record
NoProbe == [op |-> "none"]

\* the dict _load_cache returns when there is no readable cache file
EmptyCache == [total_pages_cached |-> 0, pages |-> <<>>]

\* _debug_session_data = {}: no session id; a list that is not there reads
\* as the empty list (setdefault / get(..., []))
NoDebugData ==
    [session_id |-> FALSE, steps |-> <<>>, timings |-> <<>>,
     screenshots |-> 0, html_files |-> 0]

\* a request of the event loop that has not arrived yet
NoTask ==
    [pc |-> "idle", w |-> None, pedidos |-> <<>>, exc |-> "",
     overlaps |-> FALSE, released |-> FALSE, saved |-> FALSE, max_id |-> None]

ReqInit ==
    [kind |-> "none", page |-> None, last_id |-> None, limit |-> None,
     env |-> NoFault,
     status |-> 0, returned |-> FALSE, called |-> FALSE,
     out |-> NotRun(""),
     follow |-> FALSE, prev_ids |-> <<>>]

Init ==
    /\ site \in { [i \in 1..Len(l) |-> Row(l[i])] : l \in Listings }
    /\ stateFile = MissingFile
    /\ USE_PLAYWRIGHT \in BOOLEAN
    /\ req = ReqInit
    /\ probe = NoProbe
    /\ tasks = [t \in 1..2 |-> NoTask]
    /\ cacheFile = [kind |-> "missing", data |-> EmptyCache]
    /\ debug_session_data = NoDebugData

\* a request answered with outcome r: the record of the request and the
\* state file it leaves
Serve(kind, page, last_id, limit, env, status, r, follow, prev_ids) ==
    /\ req' = [kind |-> kind, page |-> page, last_id |-> last_id,
               limit |-> limit, env |-> env, status |-> status,
               returned |-> r.out.exc = "", called |-> r.called,
               out |-> r.out, follow |-> follow, prev_ids |-> prev_ids]
    /\ stateFile' = r.stored
    /\ UNCHANGED <<site, USE_PLAYWRIGHT, probe, tasks, cacheFile, debug_session_data>>

\* a route's answer to outcome r: the status its except clauses give
ServeRoute(kind, page, last_id, limit, env, r) ==
    Serve(kind, page, last_id, limit, env, RouteStatus(r.out.exc), r,
          FALSE, <<>>)

\* GET /api/pedidos/full?page=&last_id=&limit= (last_id is not a declared
\* query parameter of the route and is ignored by it)
GetPedidosFull ==
    /\ req = ReqInit
    /\ \E page \in Opt(0..1), last_id \in Opt({-1}), limit \in Opt(0..1),
          env \in IF FullCallKeywords \subseteq FullParameters
                  THEN Envs(USE_PLAYWRIGHT) ELSE {NoFault} :
         ServeRoute("route_full", page, last_id, limit, env,
                    GetPedidosFullOutcome(USE_PLAYWRIGHT, site, stateFile,
                                          page, limit, env))

\* GET /api/pedidos/incremental?last_order_id=
GetPedidosIncremental ==
    /\ req = ReqInit
    /\ \E last_order_id \in Opt(0..MaxId - 1), env \in Envs(USE_PLAYWRIGHT) :
         ServeRoute("route_incremental", None, last_order_id, None, env,
                    Called(ExtractIncrementalPedidos(USE_PLAYWRIGHT, site,
                                                     stateFile, last_order_id, env)))

\* whether a full extraction resumes from the response in req (the last
\* request served since the site last changed): same limit, last_id the
\* cursor that response gave
Resumes(last_id, limit) ==
    /\ req.kind = "full" /\ req.returned
    /\ req.out.pagination.present
    /\ req.limit = limit
    /\ req.out.pagination.last_id_processed # None
    /\ req.out.pagination.last_id_processed = last_id

\* the record of a direct controller call, with the ids of the response it
\* resumes from, if any
ServeFullCall(last_id, limit, env, r, follow) ==
    Serve("full", None, last_id, limit, env, 0, r, follow,
          IF follow THEN NumericIds(req.out.pedidos) ELSE <<>>)

\* PedidosController.extract_all_pedidos_full(last_id, limit) called with
\* its own parameters, afresh or resuming from the response in req
CallExtractAllPedidosFull ==
    \E last_id \in Opt(0..MaxId - 1), limit \in Opt(1..MaxLimit),
       env \in Envs(USE_PLAYWRIGHT) :
      /\ req = ReqInit \/ Resumes(last_id, limit)
      /\ ServeFullCall(last_id, limit, env,
                    Called(ExtractAllPedidosFull(USE_PLAYWRIGHT, site, stateFile,
                                                 last_id, limit, env)),
                    Resumes(last_id, limit))

\* the record of the last request or call is dropped
Forget ==
    /\ req # ReqInit \/ probe # NoProbe
    /\ req' = ReqInit
    /\ probe' = NoProbe
    /\ UNCHANGED <<site, stateFile, USE_PLAYWRIGHT, tasks, cacheFile, debug_session_data>>

\* the site takes a new order, between two requests: a fresh id above every
\* id listed so far, at the head of the listing
SiteNewOrder ==
    /\ req = ReqInit
    /\ Len(site) < MaxRows
    /\ \E n \in 1..MaxId :
         /\ \A i \in 1..Len(site) : IsInt(site[i].id) => site[i].id.v < n
         /\ site' = <<Row(Some(n))>> \o site
    /\ UNCHANGED <<stateFile, USE_PLAYWRIGHT, req, probe, tasks, cacheFile, debug_session_data>>

Next ==
    \/ GetPedidosFull
    \/ GetPedidosIncremental
    \/ CallExtractAllPedidosFull
    \/ SiteNewOrder
    \/ Forget

Spec == Init /\ [][Next]_vars

\* extract_incremental_pedidos() without last_order_id, called again after
\* the call on record has ended; the ids of the responses so far are kept
\* in prev_ids
IncrementalNext ==
    /\ req.kind \in {"none", "incremental"}
    /\ Len(req.prev_ids) + Len(req.out.pedidos) <= MaxId
    /\ \E env \in Envs(USE_PLAYWRIGHT) :
         Serve("incremental", None, None, None, env, 0,
               Called(ExtractIncrementalPedidos(USE_PLAYWRIGHT, site, stateFile,
                                                None, env)),
               req.kind = "incremental",
               req.prev_ids \o NumericIds(req.out.pedidos))

\* the site takes a new order between two of those calls
SiteListsNewOrder ==
    /\ Len(site) < MaxRows
    /\ \E n \in 1..MaxId :
         /\ \A i \in 1..Len(site) : IsInt(site[i].id) => site[i].id.v < n
         /\ site' = <<Row(Some(n))>> \o site
    /\ UNCHANGED <<stateFile, USE_PLAYWRIGHT, req, probe, tasks, cacheFile,
                   debug_session_data>>

\* incremental extractions one after the other
NextIncremental == IncrementalNext \/ SiteListsNewOrder
SpecIncremental == Init /\ [][NextIncremental]_vars

\* the two routes
NextRoutes == GetPedidosFull \/ GetPedidosIncremental \/ SiteNewOrder \/ Forget
SpecRoutes == Init /\ [][NextRoutes]_vars

\* the full extraction alone
NextFull == CallExtractAllPedidosFull \/ SiteNewOrder \/ Forget
SpecFull == Init /\ [][NextFull]_vars

---------------------------------------------------------------------------
(* Direct calls of single methods.  The site is not involved: the          *)
(* arguments of a call and what the network does during it are drawn in    *)
(* its action, and probe records the call.                                 *)

InitUnits ==
    /\ site = <<>>
    /\ stateFile = MissingFile
    /\ USE_PLAYWRIGHT = FALSE
    /\ req = ReqInit
    /\ probe = NoProbe
    /\ tasks = [t \in 1..2 |-> NoTask]
    /\ cacheFile = [kind |-> "missing", data |-> EmptyCache]
    /\ debug_session_data = NoDebugData

\* sequences over S of length at most n
SeqsUpTo(S, n) == UNION { [1..k -> S] : k \in 0..n }

\* the dicts handed to _build_response and to the aggregations: an id of
\* every kind, summary and detail fields of every state
RawPedidos ==
    { [id |-> id, detalhes_url |-> IsInt(id), campos |-> c, det |-> d] :
        id \in {None, Some(1), DigitsId(MaxId), StrId},
        c \in {"text", "missing", "bad"}, d \in {"absent", "filled"} }

\* PedidosController._build_response(pedidos_completos)
CallBuildResponse ==
    /\ probe = NoProbe
    /\ \E raw \in SeqsUpTo(RawPedidos, MaxRows) :
         probe' = [op |-> "_build_response", pedidos_completos |-> raw,
                   response |-> ResponseSchema(BuildResponse(raw))]
    /\ UNCHANGED <<site, stateFile, USE_PLAYWRIGHT, req, tasks, cacheFile, debug_session_data>>

\* the dicts a listing scraper returns
ListedPedidos ==
    { [id |-> id, detalhes_url |-> u, campos |-> "text", det |-> "absent"] :
        id \in {Some(1), Some(MaxId), StrId}, u \in BOOLEAN }

\* the detail loop of _extract_with_requests on a listing, with a detail
\* scraper that returns details, returns them empty or raises
CallDetailLoop ==
    /\ probe = NoProbe
    /\ \E n \in 0..MaxRows :
         \E pedidos \in [1..n -> ListedPedidos],
            detalhes \in [1..n -> {ExtractDetalhes("none"), ExtractDetalhes("get"),
                                   [exc |-> "Exception", det |-> "absent"]}] :
           probe' = [op |-> "detail_loop", pedidos_listagem |-> pedidos,
                     detalhes |-> detalhes,
                     pedidos_completos |-> DetailLoop(pedidos, detalhes)]
    /\ UNCHANGED <<site, stateFile, USE_PLAYWRIGHT, req, tasks, cacheFile, debug_session_data>>

\* extract_detalhes(detalhes_url) of either detail scraper
CallExtractDetalhes ==
    /\ probe = NoProbe
    /\ \/ \E fault \in {"none", "get", "status", "parse"} :
            probe' = [op |-> "extract_detalhes", scraper |-> "requests",
                      fault |-> fault, result |-> ExtractDetalhes(fault),
                      gets |-> ExtractDetalhesGets(fault)]
       \/ \E fault \in {"none", "timeout", "closed", "parse"} :
            probe' = [op |-> "extract_detalhes", scraper |-> "playwright",
                      fault |-> fault, result |-> PwExtractDetalhes(fault)]
    /\ UNCHANGED <<site, stateFile, USE_PLAYWRIGHT, req, tasks, cacheFile, debug_session_data>>

\* ListagemScraper._fetch_page(page), the GET failing `fails` times in a
\* row from the first attempt on
CallFetchPage ==
    /\ probe = NoProbe
    /\ \E fails \in 0..FetchAttempts + 1 :
         probe' = [op |-> "_fetch_page", fails |-> fails,
                   result |-> FetchPageRetrying(fails)]
    /\ UNCHANGED <<site, stateFile, USE_PLAYWRIGHT, req, tasks, cacheFile, debug_session_data>>

\* _get_csrf_token() of either session on a login page that loads
CallGetCsrfToken ==
    /\ probe = NoProbe
    /\ \E login_page \in {"field", "meta", "both", "neither"} :
         \/ probe' = [op |-> "_get_csrf_token", session |-> "requests",
                      login_page |-> login_page,
                      result |-> HttpGetCsrfToken(login_page)]
         \/ probe' = [op |-> "_get_csrf_token", session |-> "playwright",
                      login_page |-> login_page,
                      result |-> PwGetCsrfToken(login_page)]
    /\ UNCHANGED <<site, stateFile, USE_PLAYWRIGHT, req, tasks, cacheFile, debug_session_data>>

\* the max_id loop of extract_incremental_pedidos over the ids of
\* pedidos_completos
CallMaxId ==
    /\ probe = NoProbe
    /\ \E ids \in SeqsUpTo({None, StrId, Some(1), Some(2), DigitsId(1),
                             DigitsId(MaxId)}, MaxRows + 2) :
         probe' = [op |-> "max_id", ids |-> ids,
                   max_id |-> MaxIdOf([i \in 1..Len(ids) |-> [id |-> ids[i]]])]
    /\ UNCHANGED <<site, stateFile, USE_PLAYWRIGHT, req, tasks, cacheFile, debug_session_data>>

\* ListagemScraperPlaywright.extract_all_pedidos(last_order_id, limit) on
\* a site that lists `rows`, the navigation to page failPage failing
\* (0: none fails)
CallPwExtractAllPedidos ==
    /\ probe = NoProbe
    /\ \E l \in Listings, last_order_id \in Opt(0..MaxId - 1),
          limit \in Opt(1..MaxLimit), failPage \in 0..MaxPage :
         probe' = [op |-> "pw_extract_all_pedidos",
                   rows |-> [i \in 1..Len(l) |-> Row(l[i])],
                   last_order_id |-> last_order_id, limit |-> limit,
                   failPage |-> failPage,
                   result |-> PwExtractAllPedidos(
                                 [i \in 1..Len(l) |-> Row(l[i])],
                                 last_order_id, limit, failPage)]
    /\ UNCHANGED <<site, stateFile, USE_PLAYWRIGHT, req, tasks, cacheFile, debug_session_data>>

\* the final filter and truncation of extract_all_pedidos (the same code
\* in both scrapers) on the orders its loop collected
CallFinalFilter ==
    /\ probe = NoProbe
    /\ \E all_pedidos \in SeqsUpTo(ListedPedidos, MaxRows),
          last_order_id \in Opt(0..MaxId - 1), limit \in Opt(1..MaxLimit) :
         probe' = [op |-> "final_filter", all_pedidos |-> all_pedidos,
                   last_order_id |-> last_order_id, limit |-> limit,
                   final_pedidos |-> FinalFilter(all_pedidos, last_order_id, limit)]
    /\ UNCHANGED <<site, stateFile, USE_PLAYWRIGHT, req, tasks, cacheFile, debug_session_data>>

\* one "with get_authenticated_session() as session" block
CallGetAuthenticatedSession ==
    /\ probe = NoProbe
    /\ \E loginFails \in 0..MaxAttempts :
         probe' = [op |-> "get_authenticated_session", loginFails |-> loginFails,
                   scope |-> HttpSessionScope(loginFails)]
    /\ UNCHANGED <<site, stateFile, USE_PLAYWRIGHT, req, tasks, cacheFile, debug_session_data>>

\* one "async with PlaywrightSession() as playwright_session" block
CallPlaywrightSession ==
    /\ probe = NoProbe
    /\ \E pwFault \in {"none", "launch", "login"},
          closeFault \in {"none", "page", "context", "browser", "engine"} :
         probe' = [op |-> "PlaywrightSession", pwFault |-> pwFault,
                   closeFault |-> closeFault,
                   scope |-> PwSessionScope(pwFault, closeFault)]
    /\ UNCHANGED <<site, stateFile, USE_PLAYWRIGHT, req, tasks, cacheFile, debug_session_data>>

NextUnits ==
    \/ CallBuildResponse
    \/ CallGetAuthenticatedSession
    \/ CallPlaywrightSession
    \/ CallPwExtractAllPedidos
    \/ CallFinalFilter
    \/ CallMaxId
    \/ CallGetCsrfToken
    \/ CallFetchPage
    \/ CallDetailLoop
    \/ CallExtractDetalhes
    \/ Forget

SpecUnits == InitUnits /\ [][NextUnits]_vars

---------------------------------------------------------------------------
(* Direct calls of the state manager, on a state file that anything may    *)
(* have written.                                                           *)

\* the state files there can be
StateFiles ==
    {MissingFile}
    \cup { [kind |-> k, last_order_id |-> None] :
             k \in {"unreadable", "invalid_json", "not_object"} }
    \cup { JsonObject(v) : v \in {None, StrId} \cup {Some(n) : n \in 0..MaxId}
                                  \cup {DigitsId(n) : n \in 1..MaxId} }

\* StateManager.save_last_order_id(order_id)
CallSaveLastOrderId ==
    /\ probe = NoProbe
    /\ \E order_id \in -1..MaxId, fault \in {"none", "mkdir", "open", "dump"} :
         /\ stateFile' = SaveLastOrderId(stateFile, Some(order_id), fault).file
         /\ probe' = [op |-> "save_last_order_id", order_id |-> Some(order_id),
                      fault |-> fault,
                      ret |-> SaveLastOrderId(stateFile, Some(order_id), fault).ret,
                      exc |-> SaveLastOrderId(stateFile, Some(order_id), fault).exc]
    /\ UNCHANGED <<site, USE_PLAYWRIGHT, req, tasks, cacheFile, debug_session_data>>

\* StateManager.get_last_order_id(), by itself or right after a save
CallGetLastOrderId ==
    /\ probe = NoProbe \/ probe.op = "save_last_order_id"
    /\ probe' = [op |-> "get_last_order_id", file |-> stateFile,
                 result |-> GetLastOrderId(stateFile),
                 after_save |-> probe.op = "save_last_order_id" /\ probe.ret,
                 saved |-> IF probe.op = "save_last_order_id"
                           THEN probe.order_id ELSE None]
    /\ UNCHANGED <<site, stateFile, USE_PLAYWRIGHT, req, tasks, cacheFile, debug_session_data>>

\* the state file is removed, damaged or rewritten from outside
StateFileReplaced ==
    /\ probe = NoProbe
    /\ stateFile' \in StateFiles \ {stateFile}
    /\ UNCHANGED <<site, USE_PLAYWRIGHT, req, probe, tasks, cacheFile, debug_session_data>>

NextState ==
    \/ CallSaveLastOrderId
    \/ CallGetLastOrderId
    \/ StateFileReplaced
    \/ Forget

SpecState == InitUnits /\ [][NextState]_vars

---------------------------------------------------------------------------
(* Two requests GET /api/pedidos/incremental (no last_order_id) served in  *)
(* browser mode by one event loop.  A coroutine runs without interruption  *)
(* from one await to the next; each action below is one such stretch of    *)
(* extract_incremental_pedidos.  The requests fallback is synchronous and  *)
(* runs inside the stretch that starts it.                                 *)

InitTasks ==
    /\ site \in { [i \in 1..Len(l) |-> Row(l[i])] : l \in Listings }
    /\ stateFile = MissingFile
    /\ USE_PLAYWRIGHT = TRUE
    /\ req = ReqInit
    /\ probe = NoProbe
    /\ tasks = [t \in 1..2 |-> NoTask]
    /\ cacheFile = [kind |-> "missing", data |-> EmptyCache]
    /\ debug_session_data = NoDebugData

\* the request arrives: get_last_order_id(), then up to the first await of
\* the browser session
TaskStart ==
    \E t \in 1..2 :
      /\ tasks[t].pc = "idle"
      /\ tasks' = [tasks EXCEPT ![t] =
                     [NoTask EXCEPT !.pc = "open",
                                    !.w = GetLastOrderId(stateFile),
                                    !.overlaps = tasks[3 - t].pc
                                       \in {"open", "listed", "detailed"}]]
      /\ UNCHANGED <<site, stateFile, USE_PLAYWRIGHT, req, probe, cacheFile, debug_session_data>>

\* browser launch, login and "await listagem_scraper.extract_all_pedidos"
TaskListing ==
    \E t \in 1..2 :
      /\ tasks[t].pc = "open"
      /\ tasks' = [tasks EXCEPT ![t].pc = "listed",
                                ![t].pedidos =
                                   PwExtractAllPedidos(site, tasks[t].w, None, 0).pedidos]
      /\ UNCHANGED <<site, stateFile, USE_PLAYWRIGHT, req, probe, cacheFile, debug_session_data>>

\* the detail loop, an await for every order with a detail link
TaskDetails ==
    \E t \in 1..2, detOk \in BOOLEAN :
      /\ tasks[t].pc = "listed"
      /\ tasks' = [tasks EXCEPT ![t].pc = "detailed",
                                ![t].pedidos = DetailStage(tasks[t].pedidos, detOk)]
      /\ UNCHANGED <<site, stateFile, USE_PLAYWRIGHT, req, probe, cacheFile, debug_session_data>>

\* __aexit__ returns and the coroutine runs to its end without another
\* await: the max_id loop, save_last_order_id, the response
TaskFinish ==
    \E t \in 1..2 :
      /\ tasks[t].pc = "detailed"
      /\ tasks' = [tasks EXCEPT ![t].pc = "done",
                                ![t].released = TRUE,
                                ![t].saved = IncrementalSaves(tasks[t].pedidos),
                                ![t].max_id = MaxIdOf(tasks[t].pedidos)]
      /\ stateFile' = IF IncrementalSaves(tasks[t].pedidos)
                      THEN SaveLastOrderId(stateFile, MaxIdOf(tasks[t].pedidos),
                                           "none").file
                      ELSE stateFile
      /\ UNCHANGED <<site, USE_PLAYWRIGHT, req, probe, cacheFile, debug_session_data>>

\* variant of FailTask that saves the orders of the browser run when the
\* fallback raised
FailTask_SavesAnyway(task, run) ==
    [task EXCEPT !.pc = IF run.exc # "" THEN "raised" ELSE "done",
                 !.released = TRUE,
                 !.exc = run.exc,
                 !.pedidos = IF run.exc # "" THEN task.pedidos ELSE run.pedidos,
                 !.saved = IncrementalSaves(IF run.exc # "" THEN task.pedidos
                                            ELSE run.pedidos),
                 !.max_id = MaxIdOf(IF run.exc # "" THEN task.pedidos
                                    ELSE run.pedidos)]

\* the request once its browser run has raised and the requests fallback
\* has ended as `run`: the fallback's error is raised again and nothing is
\* saved, else its orders go through the max_id loop and the save
FailTask(task, run) ==
    [task EXCEPT !.pc = IF run.exc # "" THEN "raised" ELSE "done",
                 !.released = TRUE,
                 !.exc = run.exc,
                 !.pedidos = run.pedidos,
                 !.saved = run.exc = "" /\ IncrementalSaves(run.pedidos),
                 !.max_id = MaxIdOf(run.pedidos)]

\* the browser run raises (launch, login or first page at the start, a
\* close in __aexit__ at the end): `except Exception` of
\* _extract_incremental_with_playwright runs the requests workflow, and
\* the coroutine runs to its end
TaskFails ==
    \E t \in 1..2, env \in Envs(FALSE) :
      /\ tasks[t].pc \in {"open", "detailed"}
      /\ tasks' = [tasks EXCEPT ![t] =
                     FailTask(tasks[t],
                              ExtractWithRequests(site, tasks[t].w, None, env))]
      /\ stateFile' =
            IF FailTask(tasks[t],
                        ExtractWithRequests(site, tasks[t].w, None, env)).saved
            THEN SaveLastOrderId(stateFile,
                    FailTask(tasks[t],
                             ExtractWithRequests(site, tasks[t].w, None, env)).max_id,
                    "none").file
            ELSE stateFile
      /\ UNCHANGED <<site, USE_PLAYWRIGHT, req, probe, cacheFile, debug_session_data>>

NextTasks ==
    \/ TaskStart
    \/ TaskListing
    \/ TaskDetails
    \/ TaskFinish
    \/ TaskFails
    \/ SiteNewOrder

SpecTasks == InitTasks /\ [][NextTasks]_vars

---------------------------------------------------------------------------
(* The pagination loops of the two listing scrapers, one round of `while   *)
(* True` per step.  probe holds the locals of the running call: page,      *)
(* all_pedidos and where the call is (pc: "loop", "returned", "raised").   *)
(* The site may show an enabled next-page control on any page, its last    *)
(* one included; a page past its rows has no rows.                         *)

\* variant of HttpRound that fetches the same page again after a fetch that
\* failed
HttpRound_RetriesPage(rows, limit, failPage, page, all, more) ==
    CASE HttpFetchPage(failPage, page) = "NetworkError" ->
           [pc |-> "raised", page |-> page, all |-> all]
      [] HttpFetchPage(failPage, page) = "RetryError" ->
           [pc |-> "loop", page |-> page, all |-> all]
      [] PageRows(rows, page) = <<>> ->
           [pc |-> "returned", page |-> page, all |-> all]
      [] limit # None
         /\ Len(all \o ExtractRows(PageRows(rows, page))) >= limit.v ->
           [pc |-> "returned", page |-> page,
            all |-> all \o ExtractRows(PageRows(rows, page))]
      [] ~more ->
           [pc |-> "returned", page |-> page,
            all |-> all \o ExtractRows(PageRows(rows, page))]
      [] OTHER ->
           [pc |-> "loop", page |-> page + 1,
            all |-> all \o ExtractRows(PageRows(rows, page))]

\* one round of the loop of ListagemScraper.extract_all_pedidos at `page`,
\* _has_more_pages answering `more`: NetworkError is raised again, any
\* other error and a page without rows break, the limit and a missing next
\* page break, else page += 1
HttpRound(rows, limit, failPage, page, all, more) ==
    CASE HttpFetchPage(failPage, page) = "NetworkError" ->
           [pc |-> "raised", page |-> page, all |-> all]
      [] HttpFetchPage(failPage, page) = "RetryError" ->
           [pc |-> "returned", page |-> page, all |-> all]
      [] PageRows(rows, page) = <<>> ->
           [pc |-> "returned", page |-> page, all |-> all]
      [] limit # None
         /\ Len(all \o ExtractRows(PageRows(rows, page))) >= limit.v ->
           [pc |-> "returned", page |-> page,
            all |-> all \o ExtractRows(PageRows(rows, page))]
      [] ~more ->
           [pc |-> "returned", page |-> page,
            all |-> all \o ExtractRows(PageRows(rows, page))]
      [] OTHER ->
           [pc |-> "loop", page |-> page + 1,
            all |-> all \o ExtractRows(PageRows(rows, page))]

\* one round of the loop of ListagemScraperPlaywright.extract_all_pedidos
PwRound(rows, last_order_id, limit, failPage, page, all) ==
    CASE PwFetchPage(failPage, page) = "NetworkError" ->
           [pc |-> "raised", page |-> page, all |-> all]
      [] PageRows(rows, page) = <<>> ->
           [pc |-> "returned", page |-> page, all |-> all]
      [] PwFoundLastOrder(ExtractRows(PageRows(rows, page)), last_order_id)
         \/ (limit # None
              /\ Len(all \o PwScanRows(ExtractRows(PageRows(rows, page)),
                                       last_order_id)) >= limit.v)
         \/ PwHasMorePages(rows, page) # "true" ->
           [pc |-> "returned", page |-> page,
            all |-> all \o PwScanRows(ExtractRows(PageRows(rows, page)),
                                      last_order_id)]
      [] OTHER ->
           [pc |-> "loop", page |-> page + 1,
            all |-> all \o PwScanRows(ExtractRows(PageRows(rows, page)),
                                      last_order_id)]

InitLoop ==
    /\ site \in { [i \in 1..Len(l) |-> Row(l[i])] : l \in Listings }
    /\ stateFile = MissingFile
    /\ USE_PLAYWRIGHT \in BOOLEAN
    /\ req = ReqInit
    /\ probe = NoProbe
    /\ tasks = [t \in 1..2 |-> NoTask]
    /\ cacheFile = [kind |-> "missing", data |-> EmptyCache]
    /\ debug_session_data = NoDebugData

\* extract_all_pedidos(last_order_id, limit) is called: page = 1,
\* all_pedidos = []
LoopStart ==
    /\ probe = NoProbe
    /\ \E last_order_id \in {None, Some(1)}, limit \in Opt(1..MaxLimit) :
         probe' = [op |-> "extract_all_pedidos",
                   last_order_id |-> last_order_id, limit |-> limit,
                   pc |-> "loop", page |-> 1, all |-> <<>>, failed |-> 0]
    /\ UNCHANGED <<site, stateFile, USE_PLAYWRIGHT, req, tasks, cacheFile,
                   debug_session_data>>

\* a round of the requests loop; the fetch of its page fails on every
\* attempt (failPage is this page) or works (failPage is 0)
HttpLoopRound ==
    /\ probe.op = "extract_all_pedidos"
    /\ probe.pc = "loop"
    /\ ~USE_PLAYWRIGHT
    /\ \E more \in {HttpHasMorePages(site, probe.page), TRUE},
          failPage \in {0, probe.page} :
         probe' = [probe EXCEPT
            !.pc = HttpRound(site, probe.limit, failPage, probe.page,
                             probe.all, more).pc,
            !.page = HttpRound(site, probe.limit, failPage, probe.page,
                               probe.all, more).page,
            !.all = HttpRound(site, probe.limit, failPage, probe.page,
                              probe.all, more).all,
            !.failed = failPage]
    /\ UNCHANGED <<site, stateFile, USE_PLAYWRIGHT, req, tasks, cacheFile,
                   debug_session_data>>

\* a round of the browser loop
PwLoopRound ==
    /\ probe.op = "extract_all_pedidos"
    /\ probe.pc = "loop"
    /\ USE_PLAYWRIGHT
    /\ \E failPage \in {0, probe.page} :
         probe' = [probe EXCEPT
            !.pc = PwRound(site, probe.last_order_id, probe.limit, failPage,
                           probe.page, probe.all).pc,
            !.page = PwRound(site, probe.last_order_id, probe.limit, failPage,
                             probe.page, probe.all).page,
            !.all = PwRound(site, probe.last_order_id, probe.limit, failPage,
                            probe.page, probe.all).all,
            !.failed = failPage]
    /\ UNCHANGED <<site, stateFile, USE_PLAYWRIGHT, req, tasks, cacheFile,
                   debug_session_data>>

NextLoop ==
    \/ LoopStart
    \/ HttpLoopRound
    \/ PwLoopRound

\* a round that has begun is carried out: the interpreter keeps running
\* the call, and every fetch has a timeout
SpecLoop ==
    /\ InitLoop
    /\ [][NextLoop]_vars
    /\ WF_vars(HttpLoopRound)
    /\ WF_vars(PwLoopRound)

---------------------------------------------------------------------------
(* PageCache: the operations on data/pages_cache.json.  A file is missing, *)
(* not parseable (empty or cut short), or holds the dict last dumped.  The *)
(* pages dict is a function from keys str(page_num) to lists of orders.    *)

MaxPageNum == 3

\* _load_cache: the dict in the file, the default dict for a file that is
\* missing or cannot be parsed
LoadCache(file) == IF file.kind = "object" THEN file.data ELSE EmptyCache

\* get_total_pages_cached
GetTotalPagesCached(file) == LoadCache(file).total_pages_cached

\* variant of SaveCache that dumps the dict without recounting its pages
SaveCache_StaleTotal(file, cache_data, fault) ==
    CASE fault = "open" -> [file |-> file, ret |-> FALSE]
      [] fault = "dump" ->
           [file |-> [kind |-> "invalid_json", data |-> EmptyCache], ret |-> FALSE]
      [] OTHER ->
           [file |-> [kind |-> "object", data |-> cache_data], ret |-> TRUE]

\* _save_cache: total_pages_cached is set to len(pages), then the dict is
\* dumped; open(.., "w") failing leaves the file as it was, json.dump
\* failing leaves a file cut short; both return False
SaveCache(file, cache_data, fault) ==
    CASE fault = "open" -> [file |-> file, ret |-> FALSE]
      [] fault = "dump" ->
           [file |-> [kind |-> "invalid_json", data |-> EmptyCache], ret |-> FALSE]
      [] OTHER ->
           [file |-> [kind |-> "object",
                      data |-> [cache_data EXCEPT !.total_pages_cached =
                                   Cardinality(DOMAIN cache_data.pages)]],
            ret |-> TRUE]

InitCache ==
    /\ site = <<>>
    /\ stateFile = MissingFile
    /\ USE_PLAYWRIGHT = FALSE
    /\ req = ReqInit
    /\ probe = NoProbe
    /\ tasks = [t \in 1..2 |-> NoTask]
    /\ cacheFile \in { [kind |-> k, data |-> EmptyCache] :
                          k \in {"missing", "invalid_json"} }
    /\ debug_session_data = NoDebugData

\* save_page(page_num, pedidos)
SavePage ==
    \E page_num \in 1..MaxPageNum, pedidos \in {<<>>, <<1>>},
       fault \in {"none", "open", "dump"} :
      /\ cacheFile' =
            SaveCache(cacheFile,
                      [LoadCache(cacheFile) EXCEPT !.pages =
                          [k \in DOMAIN @ \cup {DigitsId(page_num)} |->
                             IF k = DigitsId(page_num) THEN pedidos ELSE @[k]]],
                      fault).file
      /\ probe' = [op |-> "save_page", page_num |-> Some(page_num),
                   had |-> DigitsId(page_num) \in DOMAIN LoadCache(cacheFile).pages,
                   ret |-> fault = "none"]
      /\ UNCHANGED <<site, stateFile, USE_PLAYWRIGHT, req, tasks,
                     debug_session_data>>

\* invalidate(page_num): without a page the file is unlinked; with a page
\* its key is deleted and the dict saved, and nothing is written when the
\* key is not there
Invalidate ==
    \E page_num \in {None} \cup {Some(n) : n \in 1..MaxPageNum},
       fault \in {"none", "unlink", "open", "dump"} :
      /\ cacheFile' =
            IF page_num = None
            THEN IF cacheFile.kind = "missing" \/ fault = "unlink"
                 THEN cacheFile
                 ELSE [kind |-> "missing", data |-> EmptyCache]
            ELSE IF DigitsId(page_num.v) \in DOMAIN LoadCache(cacheFile).pages
                 THEN SaveCache(cacheFile,
                         [LoadCache(cacheFile) EXCEPT !.pages =
                             [k \in DOMAIN @ \ {DigitsId(page_num.v)} |-> @[k]]],
                         fault).file
                 ELSE cacheFile
      /\ probe' = [op |-> "invalidate", page_num |-> page_num,
                   had |-> page_num # None
                           /\ DigitsId(page_num.v) \in DOMAIN LoadCache(cacheFile).pages,
                   ret |-> IF page_num = None
                           THEN cacheFile.kind = "missing" \/ fault # "unlink"
                           ELSE DigitsId(page_num.v) \in DOMAIN LoadCache(cacheFile).pages
                                => fault \notin {"open", "dump"}]
      /\ UNCHANGED <<site, stateFile, USE_PLAYWRIGHT, req, tasks,
                     debug_session_data>>

NextCache ==
    \/ SavePage
    \/ Invalidate

SpecCache == InitCache /\ [][NextCache]_vars

---------------------------------------------------------------------------
(* DebugHelper: the operations on the module global _debug_session_data.   *)
(* The settings flag each operation tests is an input of the operation.    *)

MaxLog == 2

\* _get_session_id: a dict without "session_id" gets an id and four fresh
\* empty lists
GetSessionId(d) ==
    IF d.session_id THEN d ELSE [NoDebugData EXCEPT !.session_id = TRUE]

InitDebug ==
    /\ site = <<>>
    /\ stateFile = MissingFile
    /\ USE_PLAYWRIGHT = FALSE
    /\ req = ReqInit
    /\ probe = NoProbe
    /\ tasks = [t \in 1..2 |-> NoTask]
    /\ cacheFile = [kind |-> "missing", data |-> EmptyCache]
    /\ debug_session_data = NoDebugData

\* log_step(step_name)
LogStep ==
    \E DEBUG_MODE \in BOOLEAN, step_name \in {"fetch_page", "login"} :
      /\ Len(debug_session_data.steps) < MaxLog
      /\ debug_session_data' =
            IF DEBUG_MODE
            THEN [debug_session_data EXCEPT !.steps = Append(@, step_name)]
            ELSE debug_session_data
      /\ probe' = [op |-> "log_step", enabled |-> DEBUG_MODE]
      /\ UNCHANGED <<site, stateFile, USE_PLAYWRIGHT, req, tasks, cacheFile>>

\* log_timing(operation, duration), also reached through end_timer
LogTiming ==
    \E DEBUG_TIMING \in BOOLEAN :
      /\ Len(debug_session_data.timings) < MaxLog
      /\ debug_session_data' =
            IF DEBUG_TIMING
            THEN [debug_session_data EXCEPT !.timings = Append(@, "fetch_page")]
            ELSE debug_session_data
      /\ probe' = [op |-> "log_timing", enabled |-> DEBUG_TIMING]
      /\ UNCHANGED <<site, stateFile, USE_PLAYWRIGHT, req, tasks, cacheFile>>

\* take_screenshot(page, step_name): the session id is fetched first; a
\* failing screenshot is logged and records nothing
TakeScreenshot ==
    \E DEBUG_SCREENSHOTS \in BOOLEAN, fails \in BOOLEAN :
      /\ debug_session_data.screenshots < MaxLog
      /\ debug_session_data' =
            IF ~DEBUG_SCREENSHOTS THEN debug_session_data
            ELSE IF fails THEN GetSessionId(debug_session_data)
            ELSE [GetSessionId(debug_session_data) EXCEPT !.screenshots = @ + 1]
      /\ probe' = [op |-> "take_screenshot", enabled |-> DEBUG_SCREENSHOTS]
      /\ UNCHANGED <<site, stateFile, USE_PLAYWRIGHT, req, tasks, cacheFile>>

\* save_html(page, filename)
SaveHtml ==
    \E DEBUG_SAVE_HTML \in BOOLEAN, fails \in BOOLEAN :
      /\ debug_session_data.html_files < MaxLog
      /\ debug_session_data' =
            IF ~DEBUG_SAVE_HTML THEN debug_session_data
            ELSE IF fails THEN GetSessionId(debug_session_data)
            ELSE [GetSessionId(debug_session_data) EXCEPT !.html_files = @ + 1]
      /\ probe' = [op |-> "save_html", enabled |-> DEBUG_SAVE_HTML]
      /\ UNCHANGED <<site, stateFile, USE_PLAYWRIGHT, req, tasks, cacheFile>>

\* PlaywrightSession(): __init__ reads the session id
NewPlaywrightSession ==
    /\ debug_session_data' = GetSessionId(debug_session_data)
    /\ probe' = [op |-> "PlaywrightSession.__init__", enabled |-> TRUE]
    /\ UNCHANGED <<site, stateFile, USE_PLAYWRIGHT, req, tasks, cacheFile>>

\* reset_session()
ResetSession ==
    /\ debug_session_data' = NoDebugData
    /\ probe' = [op |-> "reset_session", enabled |-> TRUE]
    /\ UNCHANGED <<site, stateFile, USE_PLAYWRIGHT, req, tasks, cacheFile>>

NextDebug ==
    \/ LogStep
    \/ LogTiming
    \/ TakeScreenshot
    \/ SaveHtml
    \/ NewPlaywrightSession
    \/ ResetSession

SpecDebug == InitDebug /\ [][NextDebug]_vars

---------------------------------------------------------------------------
(* Properties.                                                             *)

ResponseIds == [i \in 1..Len(req.out.pedidos) |-> req.out.pedidos[i].id]

\* C1: a GET /api/pedidos/full request with valid parameters (last_id
\* absent or >= 0, limit absent or > 0) runs the controller's full
\* extraction with those values, and a workflow that succeeds is answered
\* 200.
C1_ValidFullRunsWorkflow ==
    (/\ req.kind = "route_full"
     /\ req.page = None
     /\ (req.last_id = None \/ req.last_id.v >= 0)
     /\ (req.limit = None \/ req.limit.v > 0))
    => /\ req.called
       /\ req.out.w = req.last_id
       /\ (req.out.exc = "" => req.status = 200)

\* C2: when authentication ultimately fails for a full or incremental
\* request (the HTTP login fails on every attempt, directly or as the
\* fallback of a failed browser run), the answer is 401, never 500.
C2_AuthFailureIs401 ==
    (req.kind \in {"route_full", "route_incremental"} /\ req.out.run.auth_failed)
    => req.status = 401

\* C3: a GET /api/pedidos/full request with limit <= 0 or a negative
\* last_id is answered 400 and the controller does nothing for it: no
\* login, no scraping, no state write, no export.
C3_InvalidFullIs400 ==
    (/\ req.kind = "route_full"
     /\ \/ (req.limit # None /\ req.limit.v <= 0)
        \/ (req.last_id # None /\ req.last_id.v < 0))
    => /\ req.status = 400
       /\ ~req.called
       /\ req.out.run = NoRun
       /\ ~req.out.saved /\ ~req.out.exported

\* C4: with the browser backend configured, the browser workflow runs once;
\* when it raises, the requests workflow runs exactly once with the same
\* arguments, its result is the result and its error the error; when the
\* browser workflow succeeds the requests workflow does not run.
C4_FallbackOnceSameArguments ==
    (req.called /\ USE_PLAYWRIGHT) =>
        LET run == req.out.run IN
        /\ run.pw_runs = 1
        /\ (run.pw_exc = "" => run.http_runs = 0 /\ req.out.exc = "")
        /\ (run.pw_exc # "" =>
              /\ run.http_runs = 1
              /\ run.http_args = [last_id |-> req.out.w, limit |-> req.limit]
              /\ req.out.exc = run.http_exc
              /\ (run.http_exc = "" =>
                    req.out.pedidos =
                      BuildResponse(ExtractWithRequests(site, req.out.w,
                                        req.limit, req.env).pedidos)))

\* a browser run failed, the requests workflow ran with a limit and a
\* last_id and returned orders
C4_Witness ==
    /\ req.called /\ USE_PLAYWRIGHT
    /\ req.out.run.pw_exc # "" /\ req.out.run.http_runs = 1
    /\ req.limit # None /\ req.out.w # None
    /\ req.returned /\ req.out.pedidos # <<>>

\* C5: an incremental extraction without last_order_id and without a
\* persisted watermark returns every order of the site and, when it returns
\* an order, leaves the state file at the maximum id returned.
C5_FirstIncrementalReturnsAll ==
    (/\ req.kind = "route_incremental" /\ req.returned
     /\ req.last_id = None /\ req.out.w = None)
    => /\ \A i \in 1..Len(site) :
             IsInt(site[i].id) =>
                 \E j \in 1..Len(ResponseIds) : ResponseIds[j] = site[i].id
       /\ (req.out.pedidos # <<>> =>
             GetLastOrderId(stateFile) = MaxIdOf(req.out.pedidos))

\* C6: an incremental extraction that runs with watermark w returns only
\* orders with a numeric id strictly above w, whichever backend served it.
C6_IncrementalAboveWatermark ==
    (req.kind = "route_incremental" /\ req.returned /\ req.out.w # None)
    => \A i \in 1..Len(ResponseIds) :
           IsInt(ResponseIds[i]) /\ ResponseIds[i].v > req.out.w.v

\* an incremental response with orders while the site also lists an order
\* at or below the watermark
C6_Witness ==
    /\ req.kind = "route_incremental" /\ req.returned /\ req.out.w # None
    /\ req.out.pedidos # <<>>
    /\ \E i \in 1..Len(site) : IdAtOrBelow(site[i].id, req.out.w)

\* C7: over any sequence of full extractions without limit and incremental
\* extractions, the stored last_order_id never decreases.
C7_WatermarkNeverDecreases ==
    [][(GetLastOrderId(stateFile) # None /\ GetLastOrderId(stateFile') # None)
         => GetLastOrderId(stateFile').v >= GetLastOrderId(stateFile).v]_vars

\* C8: a full extraction called with a limit leaves the state file as it
\* was.
C8_FullWithLimitKeepsState ==
    [][(req'.kind = "full" /\ req'.limit # None) => stateFile' = stateFile]_vars

\* a full extraction with a limit returned orders whose maximum id is not
\* the stored one
C8_Witness ==
    /\ req.kind = "full" /\ req.limit # None /\ req.returned
    /\ MaxIdOf(req.out.pedidos) # None
    /\ MaxIdOf(req.out.pedidos) # GetLastOrderId(stateFile)

\* C9: a full extraction whose last_id is the last_id_processed of the
\* previous response, with the same limit, returns only orders with ids
\* below that cursor and none of the previous response's orders.
C9_CursorResumesOlderPage ==
    (req.kind = "full" /\ req.follow /\ req.returned)
    => /\ \A i \in 1..Len(ResponseIds) :
             IsInt(ResponseIds[i]) => ResponseIds[i].v < req.last_id.v
       /\ \A i \in 1..Len(ResponseIds), j \in 1..Len(req.prev_ids) :
             IsInt(ResponseIds[i]) => ResponseIds[i].v # req.prev_ids[j]

\* C10: with a limit, pagination.has_more is true exactly when the number
\* of returned orders equals the limit.
C10_HasMoreIffCountIsLimit ==
    (req.kind = "full" /\ req.returned /\ req.limit # None)
    => /\ req.out.pagination.present
       /\ req.out.pagination.has_more <=> (Len(req.out.pedidos) = req.limit.v)

\* a response that fills a limit of two, flagged has_more
C10_Witness ==
    /\ req.kind = "full" /\ req.returned /\ req.limit = Some(2)
    /\ Len(req.out.pedidos) = 2 /\ req.out.pagination.has_more

\* C11: _build_response keeps the length of its input: N raw order records
\* give a response of exactly N orders with total = N, and a record that
\* cannot be coerced to the schema (an id that is no number, a field that is
\* no text) is replaced by the all-default record.
C11_BuildResponseKeepsLength ==
    probe.op = "_build_response" =>
       /\ Len(probe.response.pedidos) = Len(probe.pedidos_completos)
       /\ probe.response.total = Len(probe.pedidos_completos)
       /\ \A i \in 1..Len(probe.pedidos_completos) :
            (probe.pedidos_completos[i].id = StrId
               \/ probe.pedidos_completos[i].campos = "bad")
            => /\ i \in DOMAIN probe.response.pedidos
               /\ probe.response.pedidos[i] = DefaultPedido

\* a response built from two records, one with missing fields that
\* validates and one that cannot be coerced
C11_Witness ==
    /\ probe.op = "_build_response"
    /\ Len(probe.pedidos_completos) = 2
    /\ probe.pedidos_completos[1].campos = "missing"
    /\ probe.pedidos_completos[1].id = DigitsId(MaxId)
    /\ probe.response.pedidos[1].id = Some(MaxId)
    /\ probe.pedidos_completos[2].id = StrId
    /\ probe.response.total = 2

\* C12: the detail stage keeps the length and the order of the listing: the
\* i-th order of its result is the i-th listed order with its id and
\* summary fields unchanged, also when its detail extraction returned
\* nothing or raised; no order is dropped, duplicated or reordered.
C12_DetailStageKeepsOrders ==
    probe.op = "detail_loop" =>
       /\ Len(probe.pedidos_completos) = Len(probe.pedidos_listagem)
       /\ \A i \in 1..Len(probe.pedidos_listagem) :
            /\ i \in DOMAIN probe.pedidos_completos
            /\ probe.pedidos_completos[i].id = probe.pedidos_listagem[i].id
            /\ probe.pedidos_completos[i].campos = probe.pedidos_listagem[i].campos
            /\ probe.pedidos_completos[i].detalhes_url
                 = probe.pedidos_listagem[i].detalhes_url

\* a detail loop over two linked orders, the first raising, the second
\* without details
C12_Witness ==
    /\ probe.op = "detail_loop"
    /\ Len(probe.pedidos_listagem) = 2
    /\ probe.pedidos_listagem[1].detalhes_url
    /\ probe.pedidos_listagem[2].detalhes_url
    /\ probe.pedidos_listagem[1].id # probe.pedidos_listagem[2].id
    /\ probe.detalhes[1].exc # ""
    /\ probe.detalhes[2].det = "empty"
    /\ probe.pedidos_completos[2].det = "empty"

\* C13: the detail scrapers never raise: whatever fails, extract_detalhes
\* returns, and on a failure its ten detail fields are all "".
C13_ExtractDetalhesNeverRaises ==
    probe.op = "extract_detalhes" =>
       /\ probe.result.exc = ""
       /\ (probe.fault # "none" => probe.result.det = "empty")

\* the GET of the detail page failed and the fields came back empty
C13_Witness ==
    /\ probe.op = "extract_detalhes"
    /\ probe.scraper = "requests"
    /\ probe.fault = "get"
    /\ probe.result.det = "empty"

\* C14: when the GET of a listing page fails on every attempt, _fetch_page
\* makes at most 3 attempts and then raises NetworkError, the error of the
\* last attempt.
C14_FetchPageRaisesNetworkError ==
    (probe.op = "_fetch_page" /\ probe.fails >= probe.result.attempts
       /\ probe.result.exc # "")
    => (probe.result.attempts <= 3 /\ probe.result.exc = "NetworkError")

\* C15: the CSRF extraction returns the token when the login page matches
\* either pattern (the hidden _token field, else the csrf-token meta tag)
\* and fails with the authentication error when it matches neither.
C15_CsrfTokenOrAuthenticationError ==
    probe.op = "_get_csrf_token" =>
       /\ (probe.login_page \in {"field", "both"} =>
             (probe.result.exc = "" /\ probe.result.token = "field"))
       /\ (probe.login_page = "meta" =>
             (probe.result.exc = "" /\ probe.result.token = "meta"))
       /\ (probe.login_page = "neither" =>
             probe.result.exc = "AuthenticationError")

C17_MaxIdNormalizesIds ==
    probe.op = "max_id" =>
       IF \E i \in 1..Len(probe.ids) : probe.ids[i].t \in {"int", "digits"}
       THEN /\ probe.max_id.t = "int"
            /\ \E i \in 1..Len(probe.ids) :
                 probe.ids[i].t \in {"int", "digits"}
                 /\ probe.ids[i].v = probe.max_id.v
            /\ \A i \in 1..Len(probe.ids) :
                 probe.ids[i].t \in {"int", "digits"}
                 => probe.ids[i].v <= probe.max_id.v
       ELSE probe.max_id = None

\* the aggregation over an int, a larger digit string, another string and
\* None gives the value of the digit string
C17_Witness ==
    /\ probe.op = "max_id"
    /\ probe.ids = <<Some(1), DigitsId(MaxId), StrId, None>>
    /\ probe.max_id = Some(MaxId)

\* C19: the early exit of the browser listing does not change its result:
\* when the site lists its orders in strictly descending id order and no
\* fetch fails, for every watermark and limit the browser listing returns
\* exactly what scanning every page, then the final filter (id >
\* watermark), then the truncation to limit give.
C19_EarlyExitKeepsResult ==
    (/\ probe.op = "pw_extract_all_pedidos"
     /\ probe.failPage = 0
     /\ \A i \in 1..Len(probe.rows) : IsInt(probe.rows[i].id)
     /\ \A i \in 1..Len(probe.rows) - 1 :
          probe.rows[i].id.v > probe.rows[i + 1].id.v)
    => /\ probe.result.exc = ""
       /\ probe.result.pedidos
            = FinalFilter(ExtractRows(probe.rows), probe.last_order_id,
                          probe.limit)

\* C20: in the final filter with a watermark set, a collected order whose
\* id cannot be normalised to an integer (a non-digit string) is kept, and
\* an order with a numeric id is kept only if the id is strictly greater
\* than the watermark.
C20_FinalFilterKeepsUnparseable ==
    (probe.op = "final_filter" /\ probe.last_order_id # None
       /\ probe.limit = None)
    => /\ \A i \in 1..Len(probe.all_pedidos) :
            probe.all_pedidos[i].id = StrId
            => \E j \in 1..Len(probe.final_pedidos) :
                 probe.final_pedidos[j] = probe.all_pedidos[i]
       /\ \A j \in 1..Len(probe.final_pedidos) :
            IsInt(probe.final_pedidos[j].id)
            => probe.final_pedidos[j].id.v > probe.last_order_id.v

\* C18: incremental polling skips no order for good: in every incremental
\* extraction called without last_order_id that returns, whatever the site
\* and the network do, each order whose id is above the stored watermark
\* before the call (every order, when none is stored) is in the response
\* or is still above the stored watermark after the call.
C18_NoOrderSkipped ==
    [][(req'.kind = "route_incremental" /\ req'.last_id = None /\ req'.returned)
       => \A i \in 1..Len(site) :
            (IsInt(site[i].id)
               /\ (GetLastOrderId(stateFile) = None
                     \/ site[i].id.v > GetLastOrderId(stateFile).v))
            => \/ \E j \in 1..Len(req'.out.pedidos) :
                    req'.out.pedidos[j].id = site[i].id
               \/ GetLastOrderId(stateFile') = None
               \/ site[i].id.v > GetLastOrderId(stateFile').v]_vars

\* C21: every scraping resource created while a request is served is
\* released when the request ends, on every exit path: every HTTP session
\* object a login attempt created is closed, and a browser engine that was
\* started is stopped, also when the browser launch or the login fails.
C21_ResourcesReleased ==
    /\ (probe.op = "get_authenticated_session"
          => probe.scope.closed = probe.scope.created)
    /\ ((probe.op = "PlaywrightSession" /\ probe.closeFault = "none")
          => \E i \in 1..Len(probe.scope.attempted) :
               probe.scope.attempted[i] = "engine")

\* C22: releasing the browser session closes page, context, browser and
\* engine in that order, and when one close fails the later ones are still
\* attempted.
C22_ReleaseToleratesFailures ==
    (probe.op = "PlaywrightSession" /\ probe.pwFault # "launch")
    => probe.scope.attempted = <<"page", "context", "browser", "engine">>

\* C23: save_last_order_id never raises: every I/O failure while
\* persisting, the failure to create the parent directory included, is
\* reported as the return value False.
C23_SaveNeverRaises ==
    probe.op = "save_last_order_id" =>
       /\ probe.exc = ""
       /\ (probe.fault # "none" => ~probe.ret)

C26_OverlapKeepsLargerWatermark ==
    (/\ \A t \in 1..2 : tasks[t].pc = "done" /\ tasks[t].saved
     /\ \E t \in 1..2 : tasks[t].overlaps)
    => GetLastOrderId(stateFile)
         = Some(Max2(tasks[1].max_id.v, tasks[2].max_id.v))

\* C25: after any sequence of save_page, invalidate(page) and invalidate()
\* starting from an empty or missing cache file, the stored
\* total_pages_cached, which get_total_pages_cached() returns, equals the
\* number of distinct page keys in pages.
C25_TotalPagesCount ==
    GetTotalPagesCached(cacheFile)
      = Cardinality(DOMAIN LoadCache(cacheFile).pages)

\* one page is left after invalidate(page) removed one of two cached pages
C25_Witness ==
    /\ probe.op = "invalidate"
    /\ probe.had
    /\ probe.ret
    /\ cacheFile.kind = "object"
    /\ Cardinality(DOMAIN cacheFile.data.pages) = 1
    /\ GetTotalPagesCached(cacheFile) = 1

\* C30: between two calls of reset_session the step and timing lists only
\* grow: no other operation, in particular not the lazy creation of the
\* session id by a screenshot, an HTML dump or the construction of a
\* browser session, removes a step or timing already recorded.
C30_LogsOnlyGrow ==
    [][probe'.op # "reset_session"
       => /\ Len(debug_session_data.steps) <= Len(debug_session_data'.steps)
          /\ SubSeq(debug_session_data'.steps, 1, Len(debug_session_data.steps))
               = debug_session_data.steps
          /\ Len(debug_session_data.timings) <= Len(debug_session_data'.timings)
          /\ SubSeq(debug_session_data'.timings, 1,
                    Len(debug_session_data.timings))
               = debug_session_data.timings]_vars

\* C29: the HTTP detail scraper issues exactly one GET per extract_detalhes
\* call: a failed fetch becomes the empty-fields result inside the retried
\* function, so the retry policy never re-attempts a failed detail fetch.
C29_OneGetPerDetail ==
    (probe.op = "extract_detalhes" /\ probe.scraper = "requests")
    => probe.gets = 1

\* the GET of the detail page failed, and it was the only one
C29_Witness ==
    /\ probe.op = "extract_detalhes"
    /\ probe.scraper = "requests"
    /\ probe.fault \in {"get", "status"}
    /\ probe.result.det = "empty"
    /\ probe.gets = 1

\* C28: the listing pagination loop terminates: on a site that serves a
\* page without rows for some page number, extract_all_pedidos of either
\* scraper eventually returns or raises, for every watermark, limit and
\* pattern of page-fetch failures; the page counter only increases, and a
\* round that does not end the loop moves to the next page.
C28_PaginationTerminates ==
    /\ [][(probe.op = "extract_all_pedidos"
            /\ probe'.op = "extract_all_pedidos")
          => /\ probe'.page >= probe.page
             /\ (probe'.pc = "loop" => probe'.page = probe.page + 1)]_vars
    /\ (probe.op = "extract_all_pedidos")
         ~> (probe.op = "extract_all_pedidos"
             /\ probe.pc \in {"returned", "raised"})

\* the requests loop went on past the last page with rows and ended on the
\* page without rows
C28_Witness ==
    /\ probe.op = "extract_all_pedidos"
    /\ ~USE_PLAYWRIGHT
    /\ probe.pc = "returned"
    /\ probe.page = NumPages(site) + 1
    /\ probe.page >= 3
    /\ Len(probe.all) = Len(site)

\* C27: in a sequence of non-overlapping incremental extractions called
\* without last_order_id in which every state save succeeds, no order id
\* appears in the responses of two different calls.
C27_NoOrderReturnedTwice ==
    req.kind = "incremental"
    => \A i \in 1..Len(req.out.pedidos), j \in 1..Len(req.prev_ids) :
          req.out.pedidos[i].id # Some(req.prev_ids[j])

\* a second call returned the order the site took after the first call had
\* returned the one listed before
C27_Witness ==
    /\ req.kind = "incremental"
    /\ req.follow
    /\ req.prev_ids # <<>>
    /\ req.out.pedidos # <<>>
    /\ req.out.pedidos[1].id # None
    /\ req.out.saved

====
